---- MODULE Spec2Model ----
(***************************************************************************)
(* NetworkIQ (src/networkiq.py): the persisted record set, the request     *)
(* handlers that read and write it, and the enrichment pipeline.           *)
(*                                                                         *)
(* Text is modelled as a tuple of one-character strings, so that strip and *)
(* join are computed; a Python value that may be None is None == <<>> or   *)
(* Some(v) == <<v>>.                                                       *)
(***************************************************************************)
EXTENDS Integers, Sequences, FiniteSets, TLC

VARIABLES
    fileExists,   \* DATA_FILE.exists()
    fileData,     \* the JSON document in DATA_FILE
    clock,        \* the wall clock, in model instants
    response,     \* the last HTTP response sent
    loaded,       \* what load_data() returned to the last handler
    calls,        \* external calls made by the last handler, in order
    req,          \* per server thread: the request it is serving
    page,         \* the page in the browser: whether enrichAll is looping
    upstream,     \* how the services answer the calls of the polling loop
    given,        \* the file, title or response a function is studied on
    returned      \* what the function studied returned

vars ==
    <<fileExists, fileData, clock, response, loaded, calls, req, page, upstream,
      given, returned>>

\* ------------------------------------------------------------------ bounds

MaxRows    == 11   \* rows of the largest uploaded export
SmallRows  == 1    \* exports of 0..SmallRows rows are all uploaded
MaxClock   == 0    \* the clock runs 0..MaxClock (instants, not seconds)
MaxPick    == 1    \* row ordinals 0..MaxPick-1 are the ones enrich-one is asked
                   \* for and the ones upstream may answer faultily for
ThreadRows == 1    \* rows of the exports uploaded to the threaded server
NThreads   == 2    \* requests the threaded server serves at once
MaxLines   == 3    \* lines of the files the parser is studied on
MaxWords   == 3    \* words of the titles the classifier is studied on
MaxFaults  == 1    \* failures of upstream calls that pass (polling loop)

\* ------------------------------------------------------------ text helpers

None == <<>>
Some(v) == <<v>>

IsSpace(c) == c = " "

RECURSIVE LStrip(_)
LStrip(s) == IF s # <<>> /\ IsSpace(Head(s)) THEN LStrip(Tail(s)) ELSE s

RECURSIVE RStrip(_)
RStrip(s) ==
    IF s # <<>> /\ IsSpace(s[Len(s)]) THEN RStrip(SubSeq(s, 1, Len(s) - 1)) ELSE s

\* str.strip()
Strip(s) == RStrip(LStrip(s))

\* str(x) as an f-string formats it: None prints as "None"
Fmt(x) == IF x = None THEN <<"N", "o", "n", "e">> ELSE x[1]

\* Python truthiness of an optional text: None and "" are falsy
Truthy(x) == x # None /\ x[1] # <<>>

Min(a, b) == IF a < b THEN a ELSE b

UpperCase == <<"A", "B", "C", "D", "E", "F", "G", "H", "I", "J", "K", "L", "M",
               "N", "O", "P", "Q", "R", "S", "T", "U", "V", "W", "X", "Y", "Z">>
LowerCase == <<"a", "b", "c", "d", "e", "f", "g", "h", "i", "j", "k", "l", "m",
               "n", "o", "p", "q", "r", "s", "t", "u", "v", "w", "x", "y", "z">>

LowerOf ==
    [c \in {UpperCase[j] : j \in 1..Len(UpperCase)} |->
        LowerCase[CHOOSE j \in 1..Len(UpperCase) : UpperCase[j] = c]]

LowerChar(c) == IF c \in DOMAIN LowerOf THEN LowerOf[c] ELSE c

\* str.lower()
Lower(s) == [j \in 1..Len(s) |-> LowerChar(s[j])]

\* s.startswith(p), the match of the pattern ^p
StartsWith(s, p) == Len(p) <= Len(s) /\ SubSeq(s, 1, Len(p)) = p

\* p in s, the match of the pattern p anywhere in s
Contains(s, p) ==
    \E j \in 1..(Len(s) - Len(p) + 1) : SubSeq(s, j, j + Len(p) - 1) = p

\* ------------------------------------------------------------ persistence

DefaultData ==
    [connections |-> <<>>, api_keys |-> [tavily |-> <<>>, gemini |-> <<>>]]

load_data == IF fileExists THEN fileData ELSE DefaultData

\* save_data(data): DATA_FILE.write_text(json.dumps(data))
save_data(data) == fileExists' = TRUE /\ fileData' = data

NoSave == UNCHANGED <<fileExists, fileData>>

\* ------------------------------------------------------------- responses

NoArg == <<>>

\* jsonify(...), status: one shape for every route; the fields a route does
\* not send are None.
Resp(op, arg, status, error) ==
    [op |-> op, arg |-> arg, status |-> status, error |-> error,
     enriched |-> None, remaining |-> None, errors |-> None,
     blurb |-> None, count |-> None, connections |-> None, hasKeys |-> None]

ErrNoKeys      == "API keys not configured"
ErrNotFound    == "Connection not found"
ErrNoConns     == "No connections found in CSV"
ErrNoGemini    == "Gemini API key not configured"
ErrNoQuery     == "No query provided"
ErrSearch      == "search: HTTPError"
ErrGeneration  == "generation: HTTPError"
ErrServer      == "Internal Server Error"

\* ------------------------------------------------------------- classifier

\* One alternative of a rule's pattern: a text to find anywhere, or ^text
Within(text) == [anchored |-> FALSE, text |-> text]
Prefix(text) == [anchored |-> TRUE, text |-> text]

\* The if-chain of categorize_connection, lines 75-106, in its order
Rules == <<
    [tag  |-> "Founders",
     pats |-> {Within(<<"f", "o", "u", "n", "d", "e", "r">>),
              Within(<<"c", "o", "-", "f", "o", "u", "n", "d", "e", "r">>),
              Within(<<"c", "o", "f", "o", "u", "n", "d", "e", "r">>),
              Within(<<"o", "w", "n", "e", "r">>)}],
    [tag  |-> "Executives",
     pats |-> {Prefix(<<"c", "e", "o">>),
              Prefix(<<"c", "t", "o">>),
              Prefix(<<"c", "f", "o">>),
              Prefix(<<"c", "o", "o">>),
              Prefix(<<"c", "m", "o">>),
              Prefix(<<"c", "i", "o">>),
              Within(<<"c", "h", "i", "e", "f">>)}],
    [tag  |-> "Leadership",
     pats |-> {Prefix(<<"v", "p">>),
              Within(<<"v", "i", "c", "e", " ", "p", "r", "e", "s", "i", "d", "e", "n", "t">>),
              Within(<<"d", "i", "r", "e", "c", "t", "o", "r">>),
              Within(<<"h", "e", "a", "d", " ", "o", "f">>)}],
    [tag  |-> "Recruiting",
     pats |-> {Within(<<"r", "e", "c", "r", "u", "i", "t">>),
              Within(<<"t", "a", "l", "e", "n", "t">>),
              Within(<<"h", "r">>),
              Within(<<"h", "u", "m", "a", "n", " ", "r", "e", "s", "o", "u", "r", "c", "e">>),
              Within(<<"p", "e", "o", "p", "l", "e", " ", "o", "p", "s">>)}],
    [tag  |-> "Investors",
     pats |-> {Within(<<"i", "n", "v", "e", "s", "t", "o", "r">>),
              Within(<<"p", "a", "r", "t", "n", "e", "r">>),
              Within(<<"v", "c">>),
              Within(<<"v", "e", "n", "t", "u", "r", "e">>),
              Within(<<"c", "a", "p", "i", "t", "a", "l">>),
              Within(<<"a", "n", "g", "e", "l">>)}],
    [tag  |-> "Engineering",
     pats |-> {Within(<<"e", "n", "g", "i", "n", "e", "e", "r">>),
              Within(<<"d", "e", "v", "e", "l", "o", "p", "e", "r">>),
              Within(<<"s", "o", "f", "t", "w", "a", "r", "e">>),
              Within(<<"s", "w", "e">>),
              Within(<<"s", "d", "e">>),
              Within(<<"p", "r", "o", "g", "r", "a", "m", "m", "e", "r">>),
              Within(<<"a", "r", "c", "h", "i", "t", "e", "c", "t">>)}],
    [tag  |-> "Product",
     pats |-> {Within(<<"p", "r", "o", "d", "u", "c", "t">>),
              Within(<<"p", "m">>),
              Within(<<"p", "r", "o", "g", "r", "a", "m", " ", "m", "a", "n", "a", "g", "e", "r">>)}],
    [tag  |-> "Design",
     pats |-> {Within(<<"d", "e", "s", "i", "g", "n">>),
              Within(<<"u", "x">>),
              Within(<<"u", "i">>),
              Within(<<"c", "r", "e", "a", "t", "i", "v", "e">>)}],
    [tag  |-> "Sales",
     pats |-> {Within(<<"s", "a", "l", "e", "s">>),
              Within(<<"a", "c", "c", "o", "u", "n", "t">>),
              Within(<<"b", "u", "s", "i", "n", "e", "s", "s", " ", "d", "e", "v">>),
              Within(<<"b", "d">>)}],
    [tag  |-> "Marketing",
     pats |-> {Within(<<"m", "a", "r", "k", "e", "t">>),
              Within(<<"g", "r", "o", "w", "t", "h">>),
              Within(<<"b", "r", "a", "n", "d">>),
              Within(<<"c", "o", "n", "t", "e", "n", "t">>),
              Within(<<"s", "e", "o">>),
              Within(<<"s", "o", "c", "i", "a", "l">>)}],
    [tag  |-> "Consulting",
     pats |-> {Within(<<"c", "o", "n", "s", "u", "l", "t">>),
              Within(<<"a", "d", "v", "i", "s", "o", "r">>),
              Within(<<"s", "t", "r", "a", "t", "e", "g">>)}],
    [tag  |-> "Students",
     pats |-> {Within(<<"s", "t", "u", "d", "e", "n", "t">>),
              Within(<<"i", "n", "t", "e", "r", "n">>),
              Within(<<"u", "n", "i", "v", "e", "r", "s", "i", "t", "y">>),
              Within(<<"c", "o", "l", "l", "e", "g", "e">>),
              Within(<<"p", "h", "d">>),
              Within(<<"r", "e", "s", "e", "a", "r", "c", "h">>)}],
    [tag  |-> "Data",
     pats |-> {Within(<<"a", "n", "a", "l", "y">>),
              Within(<<"d", "a", "t", "a">>),
              Within(<<"s", "c", "i", "e", "n", "t", "i", "s", "t">>)}],
    [tag  |-> "Finance",
     pats |-> {Within(<<"f", "i", "n", "a", "n", "c", "e">>),
              Within(<<"a", "c", "c", "o", "u", "n", "t", "i", "n", "g">>),
              Within(<<"c", "o", "n", "t", "r", "o", "l", "l", "e", "r">>)}],
    [tag  |-> "Legal",
     pats |-> {Within(<<"l", "e", "g", "a", "l">>),
              Within(<<"c", "o", "u", "n", "s", "e", "l">>),
              Within(<<"a", "t", "t", "o", "r", "n", "e", "y">>),
              Within(<<"l", "a", "w", "y", "e", "r">>)}],
    [tag  |-> "Operations",
     pats |-> {Within(<<"o", "p", "e", "r", "a", "t">>),
              Within(<<"a", "d", "m", "i", "n">>),
              Within(<<"o", "f", "f", "i", "c", "e">>),
              Within(<<"a", "s", "s", "i", "s", "t", "a", "n", "t">>)}] >>

\* re.search(pattern, position, re.I) on the lowered position
Matches(rule, lowered) ==
    \E p \in rule.pats :
        IF p.anchored THEN StartsWith(lowered, p.text) ELSE Contains(lowered, p.text)

\* The rules that match the title, by their place in the chain
Hits(title) ==
    LET lowered == Lower(IF Truthy(title) THEN title[1] ELSE <<>>)
    IN  {r \in 1..Len(Rules) : Matches(Rules[r], lowered)}

\* A chain in which the last matching rule wins
categorize_lastMatch(title) ==
    LET hits == Hits(title)
    IN  IF hits = {} THEN "Other"
        ELSE Rules[CHOOSE r \in hits : \A q \in hits : q <= r].tag

\* A chain without its default
categorize_noDefault(title) ==
    LET hits == Hits(title)
    IN  IF hits = {} THEN "" ELSE Rules[CHOOSE r \in hits : \A q \in hits : r <= q].tag

\* categorize_connection(conn), of conn.get('position'): a text or None
categorize_connection(title) ==
    LET hits == Hits(title)
    IN  IF hits = {} THEN "Other"
        ELSE Rules[CHOOSE r \in hits : \A q \in hits : r <= q].tag

\* --------------------------------------------------------------- parsing
\* A file is the sequence of its lines as f.readlines() returns them, a line
\* the sequence of its cells as the csv reader splits it (no cell holds a
\* delimiter, a quote or a line break); an empty line has no cell.

first_name    == <<"f", "i", "r", "s", "t", " ", "n", "a", "m", "e">>
last_name     == <<"l", "a", "s", "t", " ", "n", "a", "m", "e">>
email_address == <<"e", "m", "a", "i", "l", " ", "a", "d", "d", "r", "e", "s", "s">>
company       == <<"c", "o", "m", "p", "a", "n", "y">>
position      == <<"p", "o", "s", "i", "t", "i", "o", "n">>
url           == <<"u", "r", "l">>
connected_on  == <<"c", "o", "n", "n", "e", "c", "t", "e", "d", " ", "o", "n">>

\* The text of a line: its cells joined by the delimiter
RECURSIVE LineText(_)
LineText(cells) ==
    IF cells = <<>> THEN <<>>
    ELSE IF Len(cells) = 1 THEN cells[1]
    ELSE cells[1] \o <<",">> \o LineText(Tail(cells))

\* 'first name' in line.lower() and 'last name' in line.lower()
IsHeader(cells) ==
    LET line == Lower(LineText(cells))
    IN  Contains(line, first_name) /\ Contains(line, last_name)

\* A scan that keeps the last labelled line
HeaderIdx_last(lines) ==
    LET hits == {i \in 1..Len(lines) : IsHeader(lines[i])}
    IN  IF hits = {} THEN 0 ELSE (CHOOSE i \in hits : \A j \in hits : j <= i) - 1

\* lines 38-42: the 0-based index of the header line
HeaderIdx(lines) ==
    LET hits == {i \in 1..Len(lines) : IsHeader(lines[i])}
    IN  IF hits = {} THEN 0 ELSE (CHOOSE i \in hits : \A j \in hits : i <= j) - 1

\* csv.DictReader(lines): the field names are the first line, the rows the
\* later lines that are not empty
DictReader(lines) ==
    [fieldnames |-> IF lines = <<>> THEN <<>> ELSE Head(lines),
     rows       |-> IF lines = <<>> THEN <<>>
                    ELSE SelectSeq(Tail(lines), LAMBDA cells : cells # <<>>)]

\* A row with more cells than field names: DictReader files the surplus under
\* the key None, and k.lower() of line 49 raises AttributeError
RowRaises(keys, cells) == Len(cells) > Len(keys)

\* k.lower().strip() of line 49 for every field name; the keys of every row
\* of a pass are the same, so they are normalised once for the pass
Keys(fieldnames) == [j \in 1..Len(fieldnames) |-> Strip(Lower(fieldnames[j]))]

\* row.get(name, '') after line 49: '' when no key is name, None (DictReader's
\* restval) when the row is too short to carry the field; of two columns of
\* one key the later is kept
Get(keys, cells, name) ==
    LET cols == {j \in 1..Len(keys) : keys[j] = name}
    IN  IF cols = {} THEN Some(<<>>)
        ELSE LET j == CHOOSE c \in cols : \A d \in cols : d <= c
             IN  IF j <= Len(cells) THEN Some(cells[j]) ELSE None

\* One row of the reader, by the names lines 53-59 look up
Row(keys, cells) ==
    [first     |-> Get(keys, cells, first_name),
     last      |-> Get(keys, cells, last_name),
     email     |-> Get(keys, cells, email_address),
     company   |-> Get(keys, cells, company),
     position  |-> Get(keys, cells, position),
     url       |-> Get(keys, cells, url),
     connected |-> Get(keys, cells, connected_on)]

\* The instants at which the rows of one pass read the clock: the pass starts
\* at `start` and the clock ticks before row ordinal k.
ParseTicks(n) == {n} \cup (IF n > 1 THEN {1} ELSE {})

RowInstant(i, start, k) == IF i < k THEN start ELSE Min(start + 1, MaxClock)

\* An identifier made of the parse instant alone
ConnId_instant(i, ms) == <<0, ms>>

\* f"conn_{i}_{int(time.time()*1000)}"
ConnId(i, ms) == <<i, ms>>

\* lines 51-63
ConnOfRow(row, i, ms) ==
    [id |-> ConnId(i, ms),
     firstName |-> row.first, lastName |-> row.last,
     email |-> row.email,
     company |-> row.company, position |-> row.position,
     url |-> row.url, connectedOn |-> row.connected,
     blurb |-> None, enrichedAt |-> None, category |-> None]

\* if conn["firstName"] or conn["lastName"]
Accepted(conn) == Truthy(conn.firstName) \/ Truthy(conn.lastName)

\* What a pass returns: the records, or that it raised
Parsed(raised, connections) == [raised |-> raised, connections |-> connections]

\* The for loop of lines 47-67 from row ordinal i on, `connections` being the
\* list built so far
RECURSIVE ParseFrom(_, _, _, _, _, _)
ParseFrom(keys, rows, i, start, k, connections) ==
    IF i >= Len(rows) THEN Parsed(FALSE, connections)
    ELSE IF RowRaises(keys, rows[i + 1]) THEN Parsed(TRUE, <<>>)
    ELSE ParseFrom(keys, rows, i + 1, start, k,
                   connections \o
                   LET conn == ConnOfRow(Row(keys, rows[i + 1]), i,
                                         RowInstant(i, start, k))
                   IN  IF Accepted(conn)
                       THEN <<[conn EXCEPT !.category =
                                  Some(categorize_connection(conn.position))]>>
                       ELSE <<>>)

\* parse_linkedin_csv(file_path), of the lines of the file
parse_linkedin_csv(lines, start, k) ==
    LET header_idx == HeaderIdx(lines)
        reader == DictReader(SubSeq(lines, header_idx + 1, Len(lines)))
    IN  ParseFrom(Keys(reader.fieldnames), reader.rows, 0, start, k, <<>>)

\* ------------------------------------------------------ external services

\* What the two upstream services answer for one record: the search call
\* returns results or fails (raise_for_status, timeout); the generation call
\* fails or returns a body, named here by its kind (GenBodies).
NormalAnswer == [search |-> "results", gen |-> "text"]

FaultAnswers ==
    {[search |-> "http_error", gen |-> "none"],
     [search |-> "results", gen |-> "http_error"],
     [search |-> "results", gen |-> "blank"]}

Answers == {NormalAnswer} \cup FaultAnswers

\* A JSON value as json.loads builds it: None, a str, a list or a dict (the
\* keys of a dict are strings)
JNull == [type |-> "null", keys |-> <<>>, vals |-> <<>>, text |-> <<>>]
JStr(text) == [type |-> "str", keys |-> <<>>, vals |-> <<>>, text |-> text]
JList(vals) == [type |-> "list", keys |-> <<>>, vals |-> vals, text |-> <<>>]
JDict(keys, vals) == [type |-> "dict", keys |-> keys, vals |-> vals, text |-> <<>>]

\* An expression that evaluated to a value, or raised the named exception
Ok(value) == [exc |-> "", value |-> value]
Raise(exc) == [exc |-> exc, value |-> JNull]

\* v[name] for a string name
GetKey(v, name) ==
    IF v.type = "dict"
    THEN LET at == {j \in 1..Len(v.keys) : v.keys[j] = name}
         IN  IF at = {} THEN Raise("KeyError") ELSE Ok(v.vals[CHOOSE j \in at : TRUE])
    ELSE Raise("TypeError")

\* v[i] for an integer i >= 0
GetIndex(v, i) ==
    CASE v.type = "list" ->
            IF i < Len(v.vals) THEN Ok(v.vals[i + 1]) ELSE Raise("IndexError")
      [] v.type = "dict" -> Raise("KeyError")
      [] v.type = "str" ->
            IF i < Len(v.text) THEN Ok(JStr(<<v.text[i + 1]>>)) ELSE Raise("IndexError")
      [] OTHER -> Raise("TypeError")

\* v.strip()
StripOf(v) ==
    IF v.type = "str" THEN Ok(JStr(Strip(v.text))) ELSE Raise("AttributeError")

\* ['candidates'][0]['content']['parts'][0]['text'], line 157: each subscript
\* is a string key (byName) or an integer index
TextPath ==
    <<[byName |-> TRUE, name |-> "candidates", index |-> 0],
      [byName |-> FALSE, name |-> "", index |-> 0],
      [byName |-> TRUE, name |-> "content", index |-> 0],
      [byName |-> TRUE, name |-> "parts", index |-> 0],
      [byName |-> FALSE, name |-> "", index |-> 0],
      [byName |-> TRUE, name |-> "text", index |-> 0]>>

\* v[path[k]]...[path[Len(path)]], left to right: what raises ends the
\* evaluation
RECURSIVE Subscripts(_, _, _)
Subscripts(v, path, k) ==
    IF k > Len(path) THEN Ok(v)
    ELSE LET r == IF path[k].byName THEN GetKey(v, path[k].name)
                  ELSE GetIndex(v, path[k].index)
         IN  IF r.exc # "" THEN r ELSE Subscripts(r.value, path, k + 1)

\* r.strip() of an evaluation r that may have raised
Stripped(r) == IF r.exc # "" THEN r ELSE StripOf(r.value)

\* data['candidates'][0]['content']['parts'][0]['text'].strip(), line 157
CandidateText(data) == Stripped(Subscripts(data, TextPath, 1))

\* A body of the shape the service documents, with the given text
Candidates(text) ==
    JDict(<<"candidates">>,
          <<JList(<<JDict(<<"content">>,
                          <<JDict(<<"parts">>,
                                  <<JList(<<JDict(<<"text">>, <<text>>)>>)>>)>>)>>)>>)

\* The bodies of a 2xx generation response, by kind; "not_json" is a body
\* response.json() cannot decode
GenBodies ==
    [text             |-> Candidates(JStr(<<" ", "S", ".", " ">>)),
     blank            |-> Candidates(JStr(<<" ">>)),
     no_candidates    |-> JDict(<<>>, <<>>),
     empty_candidates |-> JDict(<<"candidates">>, <<JList(<<>>)>>),
     blocked          |-> JDict(<<"candidates">>,
                                <<JList(<<JDict(<<"finishReason">>,
                                                <<JStr(<<"S">>)>>)>>)>>),
     no_parts         |-> JDict(<<"candidates">>,
                                <<JList(<<JDict(<<"content">>,
                                                <<JDict(<<"parts">>, <<JList(<<>>)>>)>>)>>)>>),
     dict_candidates  |-> JDict(<<"candidates">>, <<JDict(<<>>, <<>>)>>),
     null_candidates  |-> JDict(<<"candidates">>, <<JNull>>),
     str_candidates   |-> JDict(<<"candidates">>, <<JStr(<<"a">>)>>),
     list_body        |-> JList(<<>>),
     null_body        |-> JNull,
     null_text        |-> Candidates(JNull)]

GenKinds == DOMAIN GenBodies \cup {"http_error", "not_json"}

\* 'Professional on LinkedIn.'
Fallback ==
    <<"P", "r", "o", "f", "e", "s", "s", "i", "o", "n", "a", "l", " ", "o", "n",
      " ", "L", "i", "n", "k", "e", "d", "I", "n", ".">>

\* One external call as the handler saw it: the service, the record it was
\* made for, and whether it raised.
Call(kind, id, raised) == [kind |-> kind, id |-> id, raised |-> raised]

\* search_tavily: one POST; raises on a non-2xx answer
search_tavily(conn, u) ==
    [raised |-> u.search = "http_error",
     calls  |-> <<Call("search", conn.id, u.search = "http_error")>>]

\* What generate_blurb returns, or the exception it raises
Blurb(exc, text) == [exc |-> exc, text |-> text]

\* The try block, lines 156-159, of the evaluation r of line 157: KeyError and
\* IndexError give the fallback sentence, anything else raised goes on
TryText(r) ==
    IF r.exc \in {"KeyError", "IndexError"} THEN Blurb("", Fallback)
    ELSE IF r.exc # "" THEN Blurb(r.exc, <<>>)
    ELSE Blurb("", r.value.text)

\* lines 153-159 of generate_blurb, of the kind of the response:
\* raise_for_status, response.json(), then the try block
generate_blurb_response(gen) ==
    IF gen = "http_error" THEN Blurb("HTTPError", <<>>)
    ELSE IF gen = "not_json" THEN Blurb("JSONDecodeError", <<>>)
    ELSE TryText(CandidateText(GenBodies[gen]))

\* What the step returns or raises for every kind of response
Summaries == {[gen |-> gen, blurb |-> generate_blurb_response(gen)] : gen \in GenKinds}

\* str(e) of what the generation call raised
GenError(exc) ==
    CASE exc = "HTTPError" -> "generation: HTTPError"
      [] exc = "JSONDecodeError" -> "generation: JSONDecodeError"
      [] exc = "TypeError" -> "generation: TypeError"
      [] exc = "AttributeError" -> "generation: AttributeError"
      [] OTHER -> ""

\* The generation step as its caller sees it, of what it returned or raised
\* for the record id
Generated(b, id) ==
    [raised |-> b.exc # "",
     error  |-> GenError(b.exc),
     text   |-> b.text,
     calls  |-> <<Call("generate", id, b.exc # "")>>]

\* generate_blurb: one POST; raises, or returns the stripped text or the
\* fallback sentence
generate_blurb(conn, u) ==
    Generated((CHOOSE r \in Summaries : r.gen = u.gen).blurb, conn.id)

\* f"{conn['firstName']} {conn['lastName']}".strip()
FullName(conn) == Strip(Fmt(conn.firstName) \o <<" ">> \o Fmt(conn.lastName))

\* An enrichment that tries the search a second time when it raises
EnrichRecord_retry(conn, u, now) ==
    LET s == search_tavily(conn, u)
        g == generate_blurb(conn, u)
    IN  IF s.raised
        THEN [ok |-> FALSE, conn |-> conn, calls |-> s.calls \o s.calls,
              error |-> ErrSearch]
        ELSE IF g.raised
        THEN [ok |-> FALSE, conn |-> conn, calls |-> s.calls \o g.calls,
              error |-> g.error]
        ELSE [ok |-> TRUE,
              conn |-> [conn EXCEPT !.blurb = Some(g.text), !.enrichedAt = Some(now)],
              calls |-> s.calls \o g.calls, error |-> ""]

\* The body of the try block of enrich_connection and of enrich_batch (lines
\* 262-269, 296-304): search, generate, then both fields of the record.
EnrichRecord(conn, u, now) ==
    LET s == search_tavily(conn, u)
        g == generate_blurb(conn, u)
    IN  IF s.raised
        THEN [ok |-> FALSE, conn |-> conn, calls |-> s.calls, error |-> ErrSearch]
        ELSE IF g.raised
        THEN [ok |-> FALSE, conn |-> conn, calls |-> s.calls \o g.calls,
              error |-> g.error]
        ELSE [ok |-> TRUE,
              conn |-> [conn EXCEPT !.blurb = Some(g.text), !.enrichedAt = Some(now)],
              calls |-> s.calls \o g.calls, error |-> ""]

\* A check that passes as soon as one of the two keys is there
KeysMissing_both(data) == data.api_keys.tavily = <<>> /\ data.api_keys.gemini = <<>>

\* not api_keys.get("tavily") or not api_keys.get("gemini")
KeysMissing(data) == data.api_keys.tavily = <<>> \/ data.api_keys.gemini = <<>>

\* A handler's outcome: whether it saved, the document it saved, its response
\* and the external calls it made.
Outcome(save, data, resp, callSeq) ==
    [save |-> save, data |-> data, resp |-> resp, calls |-> callSeq]

\* -------------------------------------------------------------- enrich-one

\* A lookup that falls back to the first record when nothing matches
FindConn_first(conns, conn_id) ==
    LET hits == {i \in 1..Len(conns) : conns[i].id = conn_id}
    IN  IF hits # {} THEN CHOOSE i \in hits : \A j \in hits : i <= j
        ELSE IF conns = <<>> THEN 0 ELSE 1

\* next((c for c in data["connections"] if c["id"] == conn_id), None)
FindConn(conns, conn_id) ==
    LET hits == {i \in 1..Len(conns) : conns[i].id = conn_id}
    IN  IF hits = {} THEN 0 ELSE CHOOSE i \in hits : \A j \in hits : i <= j

\* enrich_connection, lines 250-274
enrich_connection(data, conn_id, u, now) ==
    IF KeysMissing(data)
    THEN Outcome(FALSE, data, Resp("enrich", conn_id, 400, ErrNoKeys), <<>>)
    ELSE LET i == FindConn(data.connections, conn_id)
         IN  IF i = 0
             THEN Outcome(FALSE, data, Resp("enrich", conn_id, 404, ErrNotFound), <<>>)
             ELSE LET r == EnrichRecord(data.connections[i], u, now)
                  IN  IF r.ok
                      THEN Outcome(TRUE,
                                   [data EXCEPT !.connections[i] = r.conn],
                                   [Resp("enrich", conn_id, 200, "") EXCEPT
                                       !.blurb = r.conn.blurb],
                                   r.calls)
                      ELSE Outcome(FALSE, data,
                                   Resp("enrich", conn_id, 500, r.error), r.calls)

\* ------------------------------------------------------------ enrich-batch

BatchLimit == 10

\* A selection that forgets the filter
Unenriched_all(conns) == [i \in 1..Len(conns) |-> i]

\* [c for c in data["connections"] if not c.get("blurb")]
Unenriched(conns) ==
    SelectSeq([i \in 1..Len(conns) |-> i], LAMBDA i : ~Truthy(conns[i].blurb))

\* A selection without the slice
Selected_unbounded(conns) == Unenriched(conns)

\* ...[:10]: the positions of the records the call works on
Selected(conns) ==
    LET un == Unenriched(conns) IN SubSeq(un, 1, Min(BatchLimit, Len(un)))

BatchStart(conns) == [conns |-> conns, enriched |-> 0, errors |-> <<>>, calls |-> <<>>]

\* One pass of the for loop, lines 294-310.  The model's instants are coarse:
\* the records of one call read the clock within the instant `now`.
BatchStep(st, i, u, now) ==
    LET r == EnrichRecord(st.conns[i], u, now)
    IN  IF r.ok
        THEN [conns    |-> [st.conns EXCEPT ![i] = r.conn],
              enriched |-> st.enriched + 1,
              errors   |-> st.errors,
              calls    |-> st.calls \o r.calls]
        ELSE [conns    |-> st.conns,
              enriched |-> st.enriched,
              errors   |-> Append(st.errors,
                                  [name |-> FullName(st.conns[i]), reason |-> r.error]),
              calls    |-> st.calls \o r.calls]

\* A loop that indexes the record set by its own counter
RECURSIVE BatchLoop_byCounter(_, _, _, _, _)
BatchLoop_byCounter(st, sel, k, us, now) ==
    IF k > Len(sel) THEN st
    ELSE BatchLoop_byCounter(BatchStep(st, k, us[k], now), sel, k + 1, us, now)

\* A loop that gives up at the first record whose enrichment raises
RECURSIVE BatchLoop_abort(_, _, _, _, _)
BatchLoop_abort(st, sel, k, us, now) ==
    IF k > Len(sel) THEN st
    ELSE LET next == BatchStep(st, sel[k], us[k], now)
         IN  IF Len(next.errors) > Len(st.errors) THEN next
             ELSE BatchLoop_abort(next, sel, k + 1, us, now)

\* The for loop from the k-th selected record on; the state a pass leaves is
\* bound (as `next`) before the next pass runs on it
RECURSIVE BatchLoop(_, _, _, _, _)
BatchLoop(st, sel, k, us, now) ==
    IF k > Len(sel) THEN st
    ELSE CHOOSE end \in {BatchLoop(next, sel, k + 1, us, now) :
                            next \in {BatchStep(st, sel[k], us[k], now)}} : TRUE

\* enrich_batch, lines 279-320; us[k] is what upstream answers for the k-th
\* selected record.
enrich_batch(data, us, now) ==
    IF KeysMissing(data)
    THEN Outcome(FALSE, data, Resp("enrich_batch", NoArg, 400, ErrNoKeys), <<>>)
    ELSE LET sel == Selected(data.connections)
         IN  IF sel = <<>>
             THEN Outcome(FALSE, data,
                          [Resp("enrich_batch", NoArg, 200, "") EXCEPT
                              !.enriched = Some(0), !.remaining = Some(0)],
                          <<>>)
             ELSE CHOOSE o \in
                    {Outcome(TRUE,
                             [data EXCEPT !.connections = st.conns],
                             [Resp("enrich_batch", NoArg, 200, "") EXCEPT
                                 !.enriched  = Some(st.enriched),
                                 !.remaining = Some(Len(Unenriched(st.conns))),
                                 !.errors    = Some(st.errors)],
                             st.calls) :
                        st \in {BatchLoop(BatchStart(data.connections), sel, 1, us, now)}} :
                    TRUE

\* ------------------------------------------------- the other route handlers

\* get_data, lines 204-208
get_data(data) ==
    Outcome(FALSE, data,
            [Resp("data", NoArg, 200, "") EXCEPT
                !.connections = Some(data.connections),
                !.hasKeys = Some(data.api_keys.tavily # <<>> /\ data.api_keys.gemini # <<>>)],
            <<>>)

\* A handler that writes the keys into a fresh document
save_keys_fresh(data, keys) ==
    Outcome(TRUE, [DefaultData EXCEPT !.api_keys = keys], Resp("keys", NoArg, 200, ""), <<>>)

\* save_keys, lines 212-219
save_keys(data, keys) ==
    Outcome(TRUE, [data EXCEPT !.api_keys = keys], Resp("keys", NoArg, 200, ""), <<>>)

\* A handler that adds the parsed records to those it loaded
upload_csv_extend(data, connections) ==
    Outcome(TRUE, [data EXCEPT !.connections = data.connections \o connections],
            [Resp("upload", NoArg, 200, "") EXCEPT !.count = Some(Len(connections))],
            <<>>)

\* upload_csv, lines 234-243, when the parse accepted at least one record
upload_csv(data, connections) ==
    Outcome(TRUE, [data EXCEPT !.connections = connections],
            [Resp("upload", NoArg, 200, "") EXCEPT !.count = Some(Len(connections))],
            <<>>)

\* chat, lines 329-339, for a question that is not blank
chat(data, answer) ==
    IF data.api_keys.gemini = <<>>
    THEN Outcome(FALSE, data, Resp("chat", Some("question"), 400, ErrNoGemini), <<>>)
    ELSE Outcome(FALSE, data,
                 IF answer = "http_error"
                 THEN Resp("chat", Some("question"), 500, ErrGeneration)
                 ELSE Resp("chat", Some("question"), 200, ""),
                 <<Call("answer", NoArg, answer = "http_error")>>)

\* ------------------------------------------------ inputs of the handlers

\* The uploaded exports: a line of notes, the header of a LinkedIn export and
\* n data rows.  Row ordinals are 0-based as enumerate(reader) counts them.  In
\* a "blank" export the first row has no name, in a "long" one it has a cell
\* more than the header.
NotesLine == <<<<"N", "o", "t", "e", "s", ":">>>>

ExportHeader ==
    <<<<"F", "i", "r", "s", "t", " ", "N", "a", "m", "e">>,
      <<"L", "a", "s", "t", " ", "N", "a", "m", "e">>,
      <<"U", "R", "L">>,
      <<"E", "m", "a", "i", "l", " ", "A", "d", "d", "r", "e", "s", "s">>,
      <<"C", "o", "m", "p", "a", "n", "y">>,
      <<"P", "o", "s", "i", "t", "i", "o", "n">>,
      <<"C", "o", "n", "n", "e", "c", "t", "e", "d", " ", "O", "n">>>>

ExportKinds == {"plain", "blank", "long"}

ExportRow(i, kind) ==
    IF i = 0 /\ kind = "blank"
    THEN <<<<>>, <<>>, <<"u">>, <<"e">>, <<"X">>, <<"C", "E", "O">>, <<"d">>>>
    ELSE IF i = 0 /\ kind = "long"
    THEN <<<<"A">>, <<"B">>, <<"u">>, <<"e">>, <<"X">>, <<"C", "E", "O">>, <<"d">>, <<"x">>>>
    ELSE CASE i % 3 = 0 ->
                <<<<"A">>, <<"B">>, <<"u">>, <<"e">>, <<"X">>, <<"C", "E", "O">>, <<"d">>>>
           [] i % 3 = 1 ->
                <<<<"J">>, <<>>, <<>>, <<>>, <<"Y">>, <<>>, <<>>>>
           [] OTHER -> <<<<"K">>>>

Export(n, kind) ==
    <<NotesLine, ExportHeader>> \o [i \in 1..n |-> ExportRow(i - 1, kind)]

ExportSizes == (0..SmallRows) \cup {MaxRows}

\* The exports by size and kind; one "long" export, of a single row
Exports ==
    {e \in ExportSizes \X ExportKinds :
        \/ e[2] = "plain"
        \/ e[2] = "blank" /\ e[1] >= 1
        \/ e[2] = "long" /\ e[1] = 1}

\* The passes of parse_linkedin_csv over the exports: the export, the instant
\* the pass starts at, the row the clock ticks before, and what it returns
ExportParses ==
    UNION {{[n |-> e[1], kind |-> e[2], start |-> start, k |-> k,
             p |-> parse_linkedin_csv(Export(e[1], e[2]), start, k)] :
                start \in 0..MaxClock, k \in ParseTicks(e[1])} : e \in Exports}

KeyValues == {<<>>, <<"k">>}

KeyPairs == [tavily : KeyValues, gemini : KeyValues]

\* An identifier no record carries: no export has a row of this ordinal
UnknownId == ConnId(MaxRows, 0)

\* The identifiers enrich-one is asked for: those of the singled-out rows
\* that are in the record set, and one that is not.
PickIds(conns) ==
    {conns[i].id : i \in {j \in 1..Len(conns) : conns[j].id[1] < MaxPick}}
        \cup {UnknownId}

\* The instant a handler reads the clock at: it may have ticked since
Instants == {clock, Min(clock + 1, MaxClock)}

\* What upstream may answer for the records at positions sel, in that order
AnswerSeqs(conns, sel) ==
    LET odd == {k \in 1..Len(sel) : conns[sel[k]].id[1] < MaxPick}
    IN  {[k \in 1..Len(sel) |-> IF k \in odd THEN plan[k] ELSE NormalAnswer] :
            plan \in [odd -> Answers]}

Threads == 1..NThreads

\* The call of the parser or of the classifier that is looked at: the
\* function and its argument
Given(fn, arg) == [fn |-> fn, arg |-> arg]

NoCall == Given("none", <<>>)

Idle == [op |-> "idle", data |-> DefaultData, arg |-> NoArg]

\* state.isEnriching of the page, lines 453-477
Page(isEnriching) == [isEnriching |-> isEnriching]

PageIdle == Page(FALSE)

\* How upstream answers the calls the polling loop makes: the row ordinals
\* of the records whose search fails on every attempt, of those whose
\* generation text is blank on every attempt, and the number of failures
\* of other calls that are still to come
Plan(failing, blank, faults) == [failing |-> failing, blank |-> blank, faults |-> faults]

Reliable == Plan({}, {}, 0)

\* ------------------------------------------------------------------ state

Init ==
    /\ fileExists = FALSE
    /\ fileData = DefaultData
    /\ clock = 0
    /\ response = Resp("none", NoArg, 200, "")
    /\ loaded = None
    /\ calls = <<>>
    /\ req = [t \in Threads |-> Idle]
    /\ page = PageIdle
    /\ upstream = Reliable
    /\ given = NoCall
    /\ returned = None

\* A handler that called load_data() and ran to its response
Apply(o, data) ==
    /\ IF o.save THEN save_data(o.data) ELSE NoSave
    /\ response' = o.resp
    /\ loaded' = Some(data)
    /\ calls' = o.calls

\* ------------------------------------------- requests served one at a time

\* A handler that does not parse
NoParse == given' = NoCall /\ returned' = None

\* GET /api/data
GetData ==
    /\ Apply(get_data(load_data), load_data)
    /\ NoParse
    /\ UNCHANGED <<clock, req, page, upstream>>

\* POST /api/keys
SaveKeys ==
    \E keys \in KeyPairs :
        /\ Apply(save_keys(load_data, keys), load_data)
        /\ NoParse
        /\ UNCHANGED <<clock, req, page, upstream>>

\* A handler that saves the empty list of a parse that accepted nothing
UploadFile_clear(p) ==
    /\ IF p.raised
       THEN /\ NoSave
            /\ response' = Resp("upload", NoArg, 500, ErrServer)
            /\ loaded' = None
            /\ calls' = <<>>
       ELSE Apply([upload_csv(load_data, p.connections) EXCEPT
                      !.resp = IF p.connections = <<>>
                               THEN Resp("upload", NoArg, 400, ErrNoConns) ELSE @],
                  load_data)
    /\ given' = NoCall
    /\ returned' = Some(p)

\* upload_csv on a .csv file, lines 231-245, p being what parse_linkedin_csv
\* returns for it: a parse that raises leaves the handler through its finally
\* clause, and Flask answers 500
UploadFile(p) ==
    /\ IF p.raised
       THEN /\ NoSave
            /\ response' = Resp("upload", NoArg, 500, ErrServer)
            /\ loaded' = None
            /\ calls' = <<>>
       ELSE IF p.connections = <<>>
       THEN /\ NoSave
            /\ response' = Resp("upload", NoArg, 400, ErrNoConns)
            /\ loaded' = None
            /\ calls' = <<>>
       ELSE Apply(upload_csv(load_data, p.connections), load_data)
    /\ given' = NoCall
    /\ returned' = Some(p)

\* POST /api/upload with a .csv file
Upload ==
    \E pass \in ExportParses :
        /\ pass.start = clock
        /\ UploadFile(pass.p)
        /\ clock' = IF pass.n = 0 THEN clock ELSE RowInstant(pass.n - 1, clock, pass.k)
        /\ UNCHANGED <<req, page, upstream>>

\* POST /api/enrich
EnrichOne ==
    \E conn_id \in PickIds(load_data.connections), u \in Answers, now \in Instants :
        \E o \in {enrich_connection(load_data, conn_id, u, now)} :
            /\ o.calls = <<>> => (u = NormalAnswer /\ now = clock)
            /\ Apply(o, load_data)
            /\ NoParse
            /\ clock' = now
            /\ UNCHANGED <<req, page, upstream>>

\* POST /api/enrich-batch
EnrichBatch ==
    LET sel == IF KeysMissing(load_data) THEN <<>>
               ELSE Selected(load_data.connections)
    IN  \E us \in AnswerSeqs(load_data.connections, sel), now \in Instants :
            \E o \in {enrich_batch(load_data, us, now)} :
                /\ o.calls = <<>> => now = clock
                /\ Apply(o, load_data)
                /\ NoParse
                /\ clock' = now
                /\ UNCHANGED <<req, page, upstream>>

\* POST /api/chat
Chat ==
    \E blank \in BOOLEAN, answer \in {"text", "http_error"} :
        /\ IF blank
           THEN /\ answer = "text"
                /\ response' = Resp("chat", Some("blank"), 400, ErrNoQuery)
                /\ loaded' = None
                /\ calls' = <<>>
                /\ NoSave
           ELSE LET o == chat(load_data, answer)
                IN  /\ o.calls = <<>> => answer = "text"
                    /\ Apply(o, load_data)
        /\ NoParse
        /\ UNCHANGED <<clock, req, page, upstream>>

\* A reset that empties the record list and keeps the keys
Reset_keepKeys ==
    /\ save_data([load_data EXCEPT !.connections = <<>>])
    /\ response' = Resp("reset", NoArg, 200, "")
    /\ loaded' = None
    /\ calls' = <<>>
    /\ NoParse
    /\ UNCHANGED <<clock, req, page, upstream>>

\* POST /api/reset: DATA_FILE.unlink(missing_ok=True)
Reset ==
    /\ fileExists' = FALSE
    /\ fileData' = DefaultData
    /\ response' = Resp("reset", NoArg, 200, "")
    /\ loaded' = None
    /\ calls' = <<>>
    /\ NoParse
    /\ UNCHANGED <<clock, req, page, upstream>>

Next == GetData \/ SaveKeys \/ Upload \/ EnrichOne \/ EnrichBatch \/ Chat \/ Reset

Spec == Init /\ [][Next]_vars

\* ------------------------------------------------- the threaded server
\* app.run(debug=False, port=5000) starts Flask's development server, which
\* serves every request on a thread of its own; no handler takes a lock.  A
\* handler is split where it can be preempted with the document in memory:
\* after load_data() and before its response (the upstream calls of the
\* enrichment routes block for seconds there).

InFlight(t) == req[t].op # "idle"

Serving(op, data, arg) == [op |-> op, data |-> data, arg |-> arg]

\* A thread takes a request and runs its handler up to load_data()
BeginKeys(t) ==
    \E keys \in {p \in KeyPairs : p.tavily = p.gemini} :
        /\ req' = [req EXCEPT ![t] = Serving("keys", load_data, keys)]
        /\ UNCHANGED clock

\* The export is parsed before load_data(); one without records is answered
\* at once (the sequential Upload) and never loads.
BeginUpload(t) ==
    \E pass \in ExportParses :
        /\ pass.start = clock
        /\ pass.kind = "plain"
        /\ pass.n \in 1..ThreadRows
        /\ req' = [req EXCEPT ![t] = Serving("upload", load_data, pass.p.connections)]
        /\ clock' = RowInstant(pass.n - 1, clock, pass.k)

BeginEnrich(t) ==
    \E conn_id \in PickIds(load_data.connections) :
        /\ req' = [req EXCEPT ![t] = Serving("enrich", load_data, conn_id)]
        /\ UNCHANGED clock

BeginBatch(t) ==
    /\ req' = [req EXCEPT ![t] = Serving("enrich_batch", load_data, NoArg)]
    /\ UNCHANGED clock

\* A question that is not blank
BeginChat(t) ==
    /\ req' = [req EXCEPT ![t] = Serving("chat", load_data, NoArg)]
    /\ UNCHANGED clock

Begin(t) ==
    /\ ~InFlight(t)
    /\ BeginKeys(t) \/ BeginUpload(t) \/ BeginEnrich(t) \/ BeginBatch(t) \/ BeginChat(t)
    /\ UNCHANGED <<fileExists, fileData, response, loaded, calls, page, upstream, given, returned>>

\* The rest of the handler, on the document the thread loaded
Finish(t) ==
    /\ InFlight(t)
    /\ \E now \in Instants :
        \E o \in
            CASE req[t].op = "keys" -> {save_keys(req[t].data, req[t].arg)}
              [] req[t].op = "upload" -> {upload_csv(req[t].data, req[t].arg)}
              [] req[t].op = "enrich" ->
                    {enrich_connection(req[t].data, req[t].arg, u, now) : u \in Answers}
              [] req[t].op = "enrich_batch" ->
                    {enrich_batch(req[t].data, us, now) :
                        us \in AnswerSeqs(req[t].data.connections,
                                          IF KeysMissing(req[t].data) THEN <<>>
                                          ELSE Selected(req[t].data.connections))}
              [] OTHER -> {chat(req[t].data, answer) : answer \in {"text", "http_error"}} :
            /\ o.calls = <<>> => now = clock
            /\ Apply(o, req[t].data)
            /\ clock' = now
    /\ req' = [req EXCEPT ![t] = Idle]
    /\ UNCHANGED <<page, upstream, given, returned>>

\* POST /api/reset, on any thread: it loads nothing
ResetThreaded(t) ==
    /\ ~InFlight(t)
    /\ Reset

NextThreaded == \E t \in Threads : Begin(t) \/ Finish(t) \/ ResetThreaded(t)

SpecThreaded == Init /\ [][NextThreaded]_vars

\* ------------------------------------------------- the parser on its own
\* parse_linkedin_csv applied to every file of at most MaxLines lines drawn
\* from LineKinds: headers in two spellings, lines that carry one label or
\* none, rows that are full, short, long, blank or without a name.

LineKinds ==
    {<<<<"F", "i", "r", "s", "t", " ", "N", "a", "m", "e">>, <<"L", "a", "s", "t", " ", "N", "a", "m", "e">>, <<"P", "o", "s", "i", "t", "i", "o", "n">>>>,
     <<<<" ", "L", "A", "S", "T", " ", "N", "A", "M", "E">>, <<"f", "i", "r", "s", "t", " ", "n", "a", "m", "e", " ">>>>,
     <<<<"N", "o", "t", "e", "s", ":">>>>,
     <<<<"F", "i", "r", "s", "t", " ", "N", "a", "m", "e">>>>,
     <<<<"A">>, <<"B">>, <<"C", "E", "O">>>>,
     <<<<"K">>>>,
     <<<<"L">>, <<"M">>, <<"C", "T", "O">>, <<"x">>>>,
     <<<<" ">>, <<>>, <<"X">>>>,
     <<<<>>, <<>>, <<"X">>>>,
     <<<<>>>>,
     <<>>}

Files == UNION {[1..n -> LineKinds] : n \in 0..MaxLines}

\* The state of a server that has served no request
Fresh ==
    /\ fileExists = FALSE
    /\ fileData = DefaultData
    /\ clock = 0
    /\ response = Resp("none", NoArg, 200, "")
    /\ loaded = None
    /\ calls = <<>>
    /\ req = [t \in Threads |-> Idle]
    /\ page = PageIdle
    /\ upstream = Reliable

InitParse ==
    /\ Fresh
    /\ given \in {Given("parse_linkedin_csv", lines) : lines \in Files}
    /\ returned = None

\* connections = parse_linkedin_csv(temp_path)
Parse ==
    /\ given.fn = "parse_linkedin_csv"
    /\ returned = None
    /\ returned' = Some(parse_linkedin_csv(given.arg, clock, Len(given.arg)))
    /\ UNCHANGED <<fileExists, fileData, clock, response, loaded, calls, req, page, upstream, given>>

SpecParse == InitParse /\ [][Parse]_vars

\* --------------------------------------------- the classifier on its own
\* categorize_connection applied to the absent title, the empty title and
\* every title of at most MaxWords words drawn from Words; then the upload
\* of an export whose row carries the title.

Words ==
    {<<"V", "P">>,
     <<"o", "f">>,
     <<"S", "a", "l", "e", "s">>,
     <<"H", "e", "a", "d", " ", "o", "f">>,
     <<"E", "n", "g", "i", "n", "e", "e", "r", "i", "n", "g">>,
     <<"a", "t", " ", "A", "c", "m", "e">>,
     <<"C", "E", "O">>,
     <<"N", "u", "r", "s", "e">>}

RECURSIVE JoinWords(_)
JoinWords(ws) ==
    IF ws = <<>> THEN <<>>
    ELSE IF Len(ws) = 1 THEN ws[1]
    ELSE ws[1] \o <<" ">> \o JoinWords(Tail(ws))

Titles ==
    {None} \cup
    {Some(JoinWords(ws)) : ws \in UNION {[1..n -> Words] : n \in 0..MaxWords}}

\* A file of one row whose last field, the position, is the title; the row
\* is a field short when the title is absent
TitledExport(title) ==
    <<<<<<"F", "i", "r", "s", "t", " ", "N", "a", "m", "e">>, <<"L", "a", "s", "t", " ", "N", "a", "m", "e">>, <<"P", "o", "s", "i", "t", "i", "o", "n">>>>,
      <<<<"A">>, <<"B">>>> \o (IF title = None THEN <<>> ELSE <<title[1]>>)>>

InitClassify ==
    /\ Fresh
    /\ given \in {Given("categorize_connection", title) : title \in Titles}
    /\ returned = None

\* conn["category"] = categorize_connection(conn)
Classify ==
    /\ given.fn = "categorize_connection"
    /\ returned = None
    /\ returned' = Some(categorize_connection(given.arg))
    /\ UNCHANGED <<fileExists, fileData, clock, response, loaded, calls, req, page, upstream, given>>

\* POST /api/upload with the export that carries the title
UploadTitled ==
    /\ given.fn = "categorize_connection"
    /\ returned # None
    /\ Apply(upload_csv(load_data,
                        parse_linkedin_csv(TitledExport(given.arg), clock, 1).connections),
             load_data)
    /\ UNCHANGED <<clock, req, page, upstream, given, returned>>

NextClassify == Classify \/ UploadTitled

SpecClassify == InitClassify /\ [][NextClassify]_vars

\* ------------------------------------------- the search query on its own
\* The query of lines 262-263 and 296-297, built for every record that
\* parse_linkedin_csv returns for a file of Files or for an export (that
\* has the company column).

QueryRows == 3

\* ' '.join(filter(None, [name, conn.get('position'), conn.get('company')]))
Query(conn) ==
    LET kept == SelectSeq(<<Some(FullName(conn)), conn.position, conn.company>>,
                          LAMBDA x : Truthy(x))
    IN  JoinWords([j \in 1..Len(kept) |-> kept[j][1]])

\* An export whose one row has a space for its first name and nothing else
SpaceExport ==
    <<NotesLine, ExportHeader, <<<<" ">>, <<>>, <<>>, <<>>, <<>>, <<>>, <<>>>>>>

QueryFiles == Files \cup {Export(QueryRows, "plain"), SpaceExport}

InitQuery ==
    /\ Fresh
    /\ given \in {Given("parse_linkedin_csv", lines) : lines \in QueryFiles}
    /\ returned = None

\* name = ...; query = ..., for a record of the parsed list
BuildQuery ==
    /\ given.fn = "parse_linkedin_csv"
    /\ returned # None
    /\ \E i \in 1..Len(returned[1].connections) :
        /\ given' = Given("query", returned[1].connections[i])
        /\ returned' = Some(Query(returned[1].connections[i]))
    /\ UNCHANGED <<fileExists, fileData, clock, response, loaded, calls, req, page, upstream>>

NextQuery == Parse \/ BuildQuery

SpecQuery == InitQuery /\ [][NextQuery]_vars

\* ------------------------------------- the summarization step on its own
\* generate_blurb applied to a generation response of every kind of
\* GenKinds; then a server whose generation service answers with that
\* response for the singled-out records.

InitGenerate ==
    /\ Fresh
    /\ given \in {Given("generate_blurb", gen) : gen \in GenKinds}
    /\ returned = None

\* blurb = generate_blurb(search_results, name, api_keys["gemini"])
Generate ==
    /\ given.fn = "generate_blurb"
    /\ returned = None
    /\ returned' = Some(generate_blurb_response(given.arg))
    /\ UNCHANGED <<fileExists, fileData, clock, response, loaded, calls, req, page, upstream, given>>

\* The search succeeds and the generation service answers as given
GivenAnswer == [search |-> "results", gen |-> given.arg]

\* POST /api/keys with both keys
KeysGiven ==
    /\ given.fn = "generate_blurb"
    /\ returned # None
    /\ Apply(save_keys(load_data, [tavily |-> <<"k">>, gemini |-> <<"k">>]), load_data)
    /\ UNCHANGED <<clock, req, page, upstream, given, returned>>

\* POST /api/upload with an export that has records
UploadGiven ==
    /\ given.fn = "generate_blurb"
    /\ returned # None
    /\ \E pass \in ExportParses :
        /\ pass.start = clock
        /\ pass.kind = "plain"
        /\ pass.n >= 1
        /\ Apply(upload_csv(load_data, pass.p.connections), load_data)
        /\ clock' = RowInstant(pass.n - 1, clock, pass.k)
    /\ UNCHANGED <<req, page, upstream, given, returned>>

\* POST /api/enrich
EnrichOneGiven ==
    /\ given.fn = "generate_blurb"
    /\ returned # None
    /\ \E conn_id \in PickIds(load_data.connections), u \in {NormalAnswer, GivenAnswer} :
        \E o \in {enrich_connection(load_data, conn_id, u, clock)} :
            /\ o.calls = <<>> => u = NormalAnswer
            /\ Apply(o, load_data)
    /\ UNCHANGED <<clock, req, page, upstream, given, returned>>

\* POST /api/enrich-batch
EnrichBatchGiven ==
    /\ given.fn = "generate_blurb"
    /\ returned # None
    /\ LET conns == load_data.connections
           sel == IF KeysMissing(load_data) THEN <<>> ELSE Selected(conns)
           odd == {k \in 1..Len(sel) : conns[sel[k]].id[1] < MaxPick}
       IN  \E given_to \in SUBSET odd :
            \E o \in {enrich_batch(load_data,
                                   [k \in 1..Len(sel) |->
                                       IF k \in given_to THEN GivenAnswer ELSE NormalAnswer],
                                   clock)} :
                Apply(o, load_data)
    /\ UNCHANGED <<clock, req, page, upstream, given, returned>>

NextGenerate == Generate \/ KeysGiven \/ UploadGiven \/ EnrichOneGiven \/ EnrichBatchGiven

SpecGenerate == InitGenerate /\ [][NextGenerate]_vars

\* ------------------------------------------------------ the polling loop
\* enrichAll of the page (lines 452-482): once started it posts
\* /api/enrich-batch again and again until an answer carries an error or
\* remaining is 0.  The caller does not cancel, and while the loop runs no
\* other request is made.  How upstream answers is fixed by a plan: some
\* records fail on every attempt, some get a blank text on every attempt,
\* and at most `faults` other calls fail.

SearchFails == [search |-> "http_error", gen |-> "none"]
BlankAnswer == [search |-> "results", gen |-> "blank"]

\* The records that fail on every attempt: none, the first, the first ten
FailingSets == {0..(n - 1) : n \in {0, 1, BatchLimit}}

Plans == {Plan(f, b, n) : f \in FailingSets, b \in {{}, {0}}, n \in 0..MaxFaults}

\* The row ordinal of the k-th selected record
OrdinalOf(conns, sel, k) == conns[sel[k]].id[1]

\* What upstream answers for the records at positions sel under the plan: a
\* failure that passes hits a singled-out record
PlannedAnswers(conns, sel) ==
    LET free == {k \in 1..Len(sel) :
                    /\ OrdinalOf(conns, sel, k) < MaxPick
                    /\ OrdinalOf(conns, sel, k) \notin upstream.failing \cup upstream.blank}
    IN  {[k \in 1..Len(sel) |->
            IF OrdinalOf(conns, sel, k) \in upstream.failing THEN SearchFails
            ELSE IF OrdinalOf(conns, sel, k) \in upstream.blank THEN BlankAnswer
            ELSE IF k \in hit THEN SearchFails
            ELSE NormalAnswer] :
         hit \in {h \in SUBSET free : Cardinality(h) <= upstream.faults}}

\* The failures of the answers that were not planned for every attempt
Passing(conns, sel, us) ==
    Cardinality({k \in 1..Len(sel) :
                    /\ us[k].search = "http_error"
                    /\ OrdinalOf(conns, sel, k) \notin upstream.failing})

InitPolling ==
    /\ fileExists = FALSE
    /\ fileData = DefaultData
    /\ clock = 0
    /\ response = Resp("none", NoArg, 200, "")
    /\ loaded = None
    /\ calls = <<>>
    /\ req = [t \in Threads |-> Idle]
    /\ page = PageIdle
    /\ upstream \in Plans
    /\ given = NoCall
    /\ returned = None

\* The user saves keys or uploads an export while no loop runs
IdleSaveKeys == ~page.isEnriching /\ SaveKeys

IdleUpload == ~page.isEnriching /\ Upload

\* enrichAll up to its loop, lines 453-463; the page holds the record set
\* as loadData() fetched it after the last request
StartEnrichAll ==
    /\ ~page.isEnriching
    /\ Unenriched(load_data.connections) # <<>>
    /\ page' = Page(TRUE)
    /\ UNCHANGED <<fileExists, fileData, clock, response, loaded, calls, req,
                   upstream, given, returned>>

\* One turn of the loop, lines 465-481, with the handler it calls
Poll ==
    /\ page.isEnriching
    /\ LET conns == load_data.connections
           sel == IF KeysMissing(load_data) THEN <<>> ELSE Selected(conns)
       IN  \E us \in PlannedAnswers(conns, sel), now \in Instants :
            \E o \in {enrich_batch(load_data, us, now)} :
                /\ o.calls = <<>> => now = clock
                /\ Apply(o, load_data)
                /\ clock' = now
                /\ page' = Page(o.resp.status = 200 /\ o.resp.remaining # Some(0))
                /\ upstream' = [upstream EXCEPT !.faults = @ - Passing(conns, sel, us)]
    /\ NoParse
    /\ UNCHANGED req

NextPolling == IdleSaveKeys \/ IdleUpload \/ StartEnrichAll \/ Poll

\* The loop awaits each answer and posts again: a turn that can be taken is
\* taken
SpecPolling == InitPolling /\ [][NextPolling]_vars /\ WF_vars(Poll)

\* ================================================================ claims

\* The record set as persisted, and as the last handler loaded it
Persisted == load_data.connections
Before == loaded[1].connections

\* The positions of the records that have no summary
NoSummary(conns) == {i \in 1..Len(conns) : ~Truthy(conns[i].blurb)}

\* The positions a batch call is to work on: a record without a summary with
\* fewer than ten such records before it
Frontier(conns) ==
    {i \in NoSummary(conns) : Cardinality({j \in NoSummary(conns) : j < i}) < 10}

\* The records the last handler made a search call for, in call order
Attempted == SelectSeq(calls, LAMBDA c : c.kind = "search")

\* The records for which a call of the last handler raised
FailedIds == {calls[k].id : k \in {j \in 1..Len(calls) : calls[j].raised}}

BatchRan == response.op = "enrich_batch" /\ calls # <<>>

\* C1 -- Enrichment atomicity: every persisted record has both a summary and
\* an enrichment timestamp, or neither.
C1_EnrichmentAtomicity ==
    \A i \in 1..Len(Persisted) :
        Truthy(Persisted[i].blurb) <=> Persisted[i].enrichedAt # None

\* C2 -- Partial-failure isolation: a batch call attempts every record it
\* selected, those after a failed one included, answers success, and its
\* remaining count is the count of records without a summary before the
\* call less the records that gained one in the call.
C2_PartialFailureIsolation ==
    BatchRan =>
        /\ Len(Attempted) = Cardinality(Frontier(Before))
        /\ \A i \in Frontier(Before) :
               \E k \in 1..Len(Attempted) : Attempted[k].id = Before[i].id
        /\ response.status = 200
        /\ response.remaining =
               Some(Cardinality(NoSummary(Before))
                    - Cardinality({i \in NoSummary(Before) : Truthy(Persisted[i].blurb)}))

\* A batch call in which a record failed and a later one was enriched
C2_Witness ==
    /\ BatchRan
    /\ \E j, k \in 1..Len(Attempted) :
           /\ j < k
           /\ Attempted[j].id \in FailedIds
           /\ \E i \in 1..Len(Persisted) :
                  /\ Persisted[i].id = Attempted[k].id
                  /\ Truthy(Persisted[i].blurb)

\* A required credential of the enrichment routes is absent
CredentialAbsent(data) == data.api_keys.tavily = <<>> \/ data.api_keys.gemini = <<>>

\* The route answered with its configuration error, called nothing and
\* saved nothing (as seen across the step that served the request)
ConfigurationErrorStep ==
    /\ response'.status = 400
    /\ response'.error = (IF response'.op = "chat" THEN ErrNoGemini ELSE ErrNoKeys)
    /\ calls' = <<>>
    /\ load_data' = load_data

\* C3 as stated -- with a required credential absent, enrich-one,
\* enrich-batch and query answer a configuration error for every input, call
\* nothing and leave the persisted state unchanged.
C3_MissingCredential_AsStated ==
    [][ ( \/ response'.op \in {"enrich", "enrich_batch"} /\ CredentialAbsent(load_data)
          \/ response'.op = "chat" /\ load_data.api_keys.gemini = <<>> )
        => ConfigurationErrorStep ]_vars

\* C3 as amended -- the same for enrich-one (unknown identifiers included)
\* and enrich-batch, and for query with a question that is not blank; a
\* blank question is answered with the no-query error, whatever the
\* credentials, also without a call or a change of the persisted state.
C3_MissingCredential ==
    [][ /\ ( \/ response'.op \in {"enrich", "enrich_batch"} /\ CredentialAbsent(load_data)
             \/ /\ response'.op = "chat"
                /\ response'.arg = Some("question")
                /\ load_data.api_keys.gemini = <<>> )
           => ConfigurationErrorStep
        /\ (response'.op = "chat" /\ response'.arg = Some("blank"))
           => /\ response'.status = 400
              /\ response'.error = ErrNoQuery
              /\ calls' = <<>>
              /\ load_data' = load_data ]_vars

\* enrich-one was asked for an unknown identifier of a set with records while
\* a credential was absent
C3_Witness ==
    /\ response.op = "enrich"
    /\ response.error = ErrNoKeys
    /\ loaded # None
    /\ CredentialAbsent(loaded[1])
    /\ Before # <<>>
    /\ \A i \in 1..Len(Before) : Before[i].id # response.arg

EnrichOneUnknownId ==
    /\ response.op = "enrich"
    /\ \A i \in 1..Len(Before) : Before[i].id # response.arg

NotFoundUnchanged ==
    /\ response.status = 404
    /\ response.error = ErrNotFound
    /\ calls = <<>>
    /\ load_data = loaded[1]

\* C4 as stated -- enrich-one with an identifier of no record answers
\* not-found in every state of the record set and the credentials.
C4_NotFound_AsStated == EnrichOneUnknownId => NotFoundUnchanged

\* C4 as amended -- ... answers not-found whenever both credentials are
\* present, makes no external call and leaves the persisted state unchanged.
C4_NotFound ==
    (EnrichOneUnknownId /\ ~CredentialAbsent(loaded[1])) => NotFoundUnchanged

\* Not-found for an identifier that is in nobody's record, the set not empty
C4_Witness ==
    /\ EnrichOneUnknownId
    /\ response.status = 404
    /\ Before # <<>>

\* C5 -- A batch call attempts exactly the first min(10, u) records without
\* a summary, in record-set order, skipping none: the k-th record it
\* attempts is the k-th record without a summary; so it enriches at most 10.
C5_BatchSelection ==
    (response.op = "enrich_batch" /\ ~CredentialAbsent(loaded[1])) =>
        /\ Len(Attempted) = Min(10, Cardinality(NoSummary(Before)))
        /\ \A k \in 1..Len(Attempted) :
               \E i \in NoSummary(Before) :
                   /\ Before[i].id = Attempted[k].id
                   /\ Cardinality({j \in NoSummary(Before) : j < i}) = k - 1
        /\ Cardinality({i \in 1..Len(Before) : Persisted[i] # Before[i]}) <= 10
        /\ response.enriched[1] <= 10

\* A call that had more than ten records to choose from
C5_Witness ==
    /\ response.op = "enrich_batch"
    /\ loaded # None
    /\ Cardinality(NoSummary(Before)) > 10
    /\ Len(Attempted) = 10
    /\ response.enriched = Some(10)

\* C6 -- With credentials present and no record without a summary, a batch
\* call answers enriched = 0 and remaining = 0 with no errors, calls nothing
\* and leaves the persisted record set unchanged.
C6_BatchIdempotence ==
    ( /\ response.op = "enrich_batch"
      /\ ~CredentialAbsent(loaded[1])
      /\ NoSummary(Before) = {} ) =>
        /\ response.status = 200
        /\ response.enriched = Some(0)
        /\ response.remaining = Some(0)
        /\ response.errors \in {None, Some(<<>>)}
        /\ calls = <<>>
        /\ load_data = loaded[1]

\* A batch call on a set whose records all have a summary
C6_Witness ==
    /\ response.op = "enrich_batch"
    /\ loaded # None
    /\ ~CredentialAbsent(loaded[1])
    /\ Before # <<>>
    /\ NoSummary(Before) = {}
    /\ response.remaining = Some(0)

\* C7 -- A batch call makes no external call for a record that had a summary
\* when the call began and leaves its summary and timestamp as they were.
C7_NoReEnrichment ==
    (response.op = "enrich_batch" /\ loaded # None) =>
        /\ Len(Persisted) = Len(Before)
        /\ \A i \in 1..Len(Before) :
               Truthy(Before[i].blurb) =>
                   /\ \A k \in 1..Len(calls) : calls[k].id # Before[i].id
                   /\ Persisted[i].blurb = Before[i].blurb
                   /\ Persisted[i].enrichedAt = Before[i].enrichedAt

\* A batch call that ran on a partly enriched set
C7_Witness ==
    /\ BatchRan
    /\ \E i \in 1..Len(Before) : Truthy(Before[i].blurb)
    /\ \E i \in 1..Len(Before) : ~Truthy(Before[i].blurb) /\ Truthy(Persisted[i].blurb)

\* A record for which a call of the batch raised has neither summary nor
\* timestamp after the call
FailedStayUnenriched ==
    (response.op = "enrich_batch" /\ loaded # None) =>
        \A i \in 1..Len(Persisted) :
            Persisted[i].id \in FailedIds =>
                ~Truthy(Persisted[i].blurb) /\ Persisted[i].enrichedAt = None

\* A batch call that follows a batch call at once attempts the records that
\* failed in the first
FailedReselected ==
    (response.op = "enrich_batch" /\ response'.op = "enrich_batch") =>
        \A id \in FailedIds : \E k \in 1..Len(Attempted') : Attempted'[k].id = id

\* C8 -- A record whose enrichment fails in a batch call has neither summary
\* nor timestamp after the call and is selected by the batch call that
\* follows at once.
C8_FailedRecordRetried == []FailedStayUnenriched /\ [][FailedReselected]_vars

\* The second half of C8 alone
C8_Reselected == [][FailedReselected]_vars

\* C9 -- At no point are two operations in progress against the persisted
\* record set.
C9_MutualExclusion == Cardinality({t \in Threads : InFlight(t)}) <= 1

IdsOf(conns) == [i \in 1..Len(conns) |-> conns[i].id]

\* C10 -- The persisted records have pairwise distinct identifiers, and
\* enrich-one, enrich-batch, set-credentials and query leave the sequence of
\* identifiers as it was.
C10_IdentifierInvariant ==
    /\ \A i, j \in 1..Len(Persisted) :
           i # j => Persisted[i].id # Persisted[j].id
    /\ (response.op \in {"enrich", "enrich_batch", "keys", "chat"} /\ loaded # None)
           => IdsOf(Persisted) = IdsOf(Before)

\* Several records parsed in one and the same instant, and a batch call on
\* them
C10_Witness ==
    /\ Len(Persisted) >= 2
    /\ \A i \in 1..Len(Persisted) : Persisted[i].id[2] = Persisted[1].id[2]
    /\ BatchRan

\* ---------------------------------------------------- claims on the parser

\* The parser was applied to the file in `given`
ParserRan == given.fn = "parse_linkedin_csv" /\ returned # None

\* The place of the header as the claims state it: the first line that holds
\* both labels, the first line of the file when none does
HeaderPlace(lines) ==
    LET labelled == {i \in 1..Len(lines) : IsHeader(lines[i])}
    IN  IF labelled = {} THEN 1 ELSE CHOOSE i \in labelled : \A j \in labelled : i <= j

\* The rows of the file: its lines after the header that are not empty
RowsOf(lines) ==
    SelectSeq(SubSeq(lines, HeaderPlace(lines) + 1, Len(lines)), LAMBDA cells : cells # <<>>)

\* The field of a row under the header of the file
FieldOf(lines, cells, name) ==
    IF lines = <<>> THEN Some(<<>>)
    ELSE Get(Keys(lines[HeaderPlace(lines)]), cells, name)

\* The field is there and is not empty once trimmed
NonEmptyTrimmed(x) == x # None /\ Strip(x[1]) # <<>>

\* The records the parse made of the row of ordinal i
RecordsOfRow(i) ==
    {c \in 1..Len(returned[1].connections) : returned[1].connections[c].id[1] = i}

\* C11 -- A row yields a record if and only if its first name or its last
\* name is not empty after trimming; a row whose names are both empty after
\* trimming (of white space only, or too short to carry them) yields none.
C11_RowAcceptance ==
    (ParserRan /\ ~returned[1].raised) =>
        LET rows == RowsOf(given.arg)
        IN  \A i \in 1..Len(rows) :
                RecordsOfRow(i - 1) # {} <=>
                    \/ NonEmptyTrimmed(FieldOf(given.arg, rows[i], first_name))
                    \/ NonEmptyTrimmed(FieldOf(given.arg, rows[i], last_name))

\* The fields of a record by the name they are read under
FieldsOf(conn) ==
    {<<first_name, conn.firstName>>, <<last_name, conn.lastName>>,
     <<email_address, conn.email>>, <<company, conn.company>>,
     <<position, conn.position>>, <<url, conn.url>>,
     <<connected_on, conn.connectedOn>>}

\* C12 -- For every row with fewer or with more fields than the header, the
\* parse does not raise; a row with a name yields a record whose fields are
\* those the row carries, empty where it carries none; the other rows of
\* the file are parsed.
C12_TolerantDegradation ==
    ParserRan =>
        /\ ~returned[1].raised
        /\ LET rows == RowsOf(given.arg)
           IN  \A i \in 1..Len(rows) :
                   (\/ Truthy(FieldOf(given.arg, rows[i], first_name))
                    \/ Truthy(FieldOf(given.arg, rows[i], last_name)))
                   => \E c \in RecordsOfRow(i - 1) :
                          \A f \in FieldsOf(returned[1].connections[c]) :
                              IF Truthy(FieldOf(given.arg, rows[i], f[1]))
                              THEN f[2] = FieldOf(given.arg, rows[i], f[1])
                              ELSE ~Truthy(f[2])

\* The parse of a file whose header has three fields and whose one row has
\* four raised
C12_LongRowRaised ==
    /\ ParserRan
    /\ Len(given.arg) = 2
    /\ HeaderPlace(given.arg) = 1
    /\ IsHeader(given.arg[1])
    /\ Len(given.arg[2]) = Len(given.arg[1]) + 1
    /\ returned[1].raised

\* The parse of a file with a row of white space for a name made a record
C11_SpaceNameAccepted ==
    /\ ParserRan
    /\ Len(given.arg) = 2
    /\ IsHeader(given.arg[1])
    /\ FieldOf(given.arg, given.arg[2], first_name) = Some(<<" ">>)
    /\ FieldOf(given.arg, given.arg[2], last_name) = Some(<<>>)
    /\ Len(returned[1].connections) = 1

\* C13 -- The header is the first line that holds both labels, or the first
\* line when none does: every record is made of a row after it, with its
\* fields read under the names of that line; the records are in the order
\* of their rows, and every such row with a name has its record.
C13_HeaderLocation ==
    ParserRan =>
        LET rows  == RowsOf(given.arg)
            conns == returned[1].connections
        IN  /\ \A c \in 1..Len(conns) :
                   /\ conns[c].id[1] + 1 \in 1..Len(rows)
                   /\ LET cells == rows[conns[c].id[1] + 1]
                      IN  /\ conns[c].firstName = FieldOf(given.arg, cells, first_name)
                          /\ conns[c].lastName = FieldOf(given.arg, cells, last_name)
                          /\ conns[c].position = FieldOf(given.arg, cells, position)
            /\ \A c, d \in 1..Len(conns) : c < d => conns[c].id[1] < conns[d].id[1]
            /\ ~returned[1].raised =>
                   \A i \in 1..Len(rows) :
                       (\/ Truthy(FieldOf(given.arg, rows[i], first_name))
                        \/ Truthy(FieldOf(given.arg, rows[i], last_name)))
                       => RecordsOfRow(i - 1) # {}

\* A file with a line before its header that would make a record as a row,
\* with a second labelled line after the header, and with a record
C13_Witness ==
    /\ ParserRan
    /\ HeaderPlace(given.arg) = 2
    /\ given.arg[1] # <<>>
    /\ ~IsHeader(given.arg[1])
    /\ Truthy(Get(Keys(given.arg[2]), given.arg[1], first_name))
    /\ Len(given.arg) = 3
    /\ IsHeader(given.arg[3])
    /\ Len(returned[1].connections) = 1

\* A file without a labelled line: its first line is the header
C13_NoHeaderWitness ==
    /\ ParserRan
    /\ Len(given.arg) >= 2
    /\ \A i \in 1..Len(given.arg) : ~IsHeader(given.arg[i])
    /\ ~returned[1].raised
    /\ Len(returned[1].connections) >= 1

\* ------------------------------------------------ claims on the classifier

\* The classifier was applied to the title in `given`
ClassifierRan == given.fn = "categorize_connection" /\ returned # None

\* The order of the rules as the claim fixes it
TagOrder ==
    <<"Founders", "Executives", "Leadership", "Recruiting", "Investors",
      "Engineering", "Product", "Design", "Sales", "Marketing", "Consulting",
      "Students", "Data", "Finance", "Legal", "Operations">>

Taxonomy == {TagOrder[r] : r \in 1..Len(TagOrder)} \cup {"Other"}

HeadOfEngineeringAtAcme == <<"H", "e", "a", "d", " ", "o", "f", " ", "E", "n", "g", "i", "n", "e", "e", "r", "i", "n", "g", " ", "a", "t", " ", "A", "c", "m", "e">>

VPOfSales == <<"V", "P", " ", "o", "f", " ", "S", "a", "l", "e", "s">>

\* C14 -- The rules stand in the fixed order, and a title that matches more
\* than one rule gets the tag of the earliest rule it matches; "Head of
\* Engineering at Acme" and "VP of Sales" get Leadership.
C14_FirstMatchWins ==
    /\ \A r \in 1..Len(Rules) : Len(Rules) = Len(TagOrder) /\ Rules[r].tag = TagOrder[r]
    /\ ClassifierRan =>
           /\ Cardinality(Hits(given.arg)) > 1 =>
                  \E r \in Hits(given.arg) :
                      /\ \A q \in Hits(given.arg) : r <= q
                      /\ returned = Some(TagOrder[r])
           /\ given.arg \in {Some(HeadOfEngineeringAtAcme), Some(VPOfSales)} =>
                  returned = Some("Leadership")

\* "Head of Engineering at Acme", which matches the Leadership and the
\* Engineering rule, was classified
C14_Witness ==
    /\ ClassifierRan
    /\ given.arg = Some(HeadOfEngineeringAtAcme)
    /\ {3, 6} \subseteq Hits(given.arg)
    /\ returned = Some("Leadership")

\* C15 -- For every title, the empty and the absent one included, the
\* classifier returns one of the 17 tags, and "Other" exactly when no rule
\* matches; a second classification of the title (the one of the parse of
\* an export that carries it) gives the same tag; every persisted record
\* has a category of the taxonomy.
C15_ClassifierTotal ==
    /\ Cardinality(Taxonomy) = 17
    /\ ClassifierRan =>
           /\ returned[1] \in Taxonomy
           /\ returned[1] = "Other" <=> Hits(given.arg) = {}
           /\ given.arg \in {None, Some(<<>>)} => returned[1] = "Other"
           /\ \A i \in 1..Len(load_data.connections) :
                  load_data.connections[i].category = returned
    /\ \A i \in 1..Len(load_data.connections) :
           /\ load_data.connections[i].category # None
           /\ load_data.connections[i].category[1] \in Taxonomy

\* The absent title was classified, and the record of a row too short to
\* carry a position is persisted
C15_Witness ==
    /\ ClassifierRan
    /\ given.arg = None
    /\ returned = Some("Other")
    /\ Len(load_data.connections) = 1
    /\ load_data.connections[1].position = None
    /\ load_data.connections[1].category = Some("Other")

\* ------------------------------------------ claims on the record set, again

\* What enrichment never writes
Frame(conn) ==
    [id |-> conn.id, firstName |-> conn.firstName, lastName |-> conn.lastName,
     email |-> conn.email, company |-> conn.company, position |-> conn.position,
     url |-> conn.url, connectedOn |-> conn.connectedOn, category |-> conn.category]

\* The records for which the last handler made both calls and none raised
EnrichedIds ==
    {id \in {calls[k].id : k \in 1..Len(calls)} :
        /\ id \notin FailedIds
        /\ \E k \in 1..Len(calls) : calls[k].id = id /\ calls[k].kind = "generate"}

\* C16 -- enrich-one, enrich-batch, set-credentials and query leave the
\* number and the order of the records and every record's identifier,
\* names, email, company, position, url, connection date and category as
\* they were; the enrichment routes change only the summary and timestamp
\* of the records they enrich, set-credentials only the credential pair.
C16_Frame ==
    (response.op \in {"enrich", "enrich_batch", "keys", "chat"} /\ loaded # None) =>
        /\ Len(Persisted) = Len(Before)
        /\ \A i \in 1..Len(Before) : Frame(Persisted[i]) = Frame(Before[i])
        /\ response.op \in {"enrich", "enrich_batch"} =>
               /\ load_data.api_keys = loaded[1].api_keys
               /\ \A i \in 1..Len(Before) :
                      Persisted[i] # Before[i] => Before[i].id \in EnrichedIds
        /\ response.op = "keys" => Persisted = Before
        /\ response.op = "chat" => load_data = loaded[1]

\* A batch call that enriched a record with a category and a position
C16_Witness ==
    /\ BatchRan
    /\ \E i \in 1..Len(Before) :
           /\ Persisted[i] # Before[i]
           /\ Persisted[i].category = Some("Executives")
           /\ Truthy(Persisted[i].email)
    /\ \E i \in 1..Len(Before) : Before[i].id \in FailedIds

\* What get-current-state answers in this state
CurrentState == get_data(load_data).resp

\* C17 -- After a successful ingest the record set is the sequence the parse
\* returned, every record without summary and timestamp, and the credential
\* pair is the one before the ingest; get-current-state in that state
\* returns that sequence.
C17_IngestRoundTrip ==
    [][ /\ (response'.op = "upload" /\ response'.status = 200) =>
               /\ load_data'.connections = returned'[1].connections
               /\ response'.count = Some(Len(returned'[1].connections))
               /\ \A i \in 1..Len(load_data'.connections) :
                      /\ load_data'.connections[i].blurb = None
                      /\ load_data'.connections[i].enrichedAt = None
               /\ load_data'.api_keys = load_data.api_keys
        /\ (response.op = "upload" /\ response.status = 200 /\ response'.op = "data") =>
               /\ response'.connections = Some(returned[1].connections)
               /\ response'.status = 200 ]_vars

\* An ingest over a record set with a summary, the credentials present
C17_Witness ==
    /\ response.op = "upload"
    /\ response.status = 200
    /\ loaded # None
    /\ \E i \in 1..Len(Before) : Truthy(Before[i].blurb)
    /\ Len(Persisted) # Len(Before)
    /\ ~CredentialAbsent(load_data)

\* C18 -- An ingest whose parse accepts no record answers "no connections
\* found" and leaves the persisted record set and credentials as they were.
C18_FailedIngest ==
    [][ (returned' # None /\ ~returned'[1].raised /\ returned'[1].connections = <<>>) =>
            /\ response'.op = "upload"
            /\ response'.status = 400
            /\ response'.error = ErrNoConns
            /\ load_data' = load_data
            /\ fileExists' = fileExists ]_vars

\* A failed ingest over records and credentials
C18_Witness ==
    /\ response.op = "upload"
    /\ response.error = ErrNoConns
    /\ returned # None
    /\ returned[1].connections = <<>>
    /\ Persisted # <<>>
    /\ ~CredentialAbsent(load_data)

\* C19 -- When the search or the generation call of enrich-one fails, the
\* caller gets an upstream error, each external call was made at most once,
\* and the persisted state is as it was.
C19_SingleFailure ==
    (response.op = "enrich" /\ FailedIds # {}) =>
        /\ response.status = 500
        /\ response.error \in {ErrSearch, ErrGeneration}
        /\ \A j, k \in 1..Len(calls) : j # k => calls[j].kind # calls[k].kind
        /\ \A k \in 1..Len(calls) : calls[k].id = response.arg
        /\ load_data = loaded[1]

\* enrich-one of a record without summary whose generation call failed
C19_Witness ==
    /\ response.op = "enrich"
    /\ response.error = ErrGeneration
    /\ Len(calls) = 2
    /\ \E i \in 1..Len(Persisted) :
           /\ Persisted[i].id = response.arg
           /\ Persisted[i].blurb = None
           /\ Persisted[i].enrichedAt = None

\* No credential is stored
NoCredentials == load_data.api_keys = DefaultData.api_keys

\* After reset the state is the default one, and get-current-state reports no
\* record and no credentials
ResetToDefault ==
    response.op = "reset" =>
        /\ load_data = DefaultData
        /\ CurrentState.connections = Some(<<>>)
        /\ CurrentState.hasKeys = Some(FALSE)

\* C20 as stated -- After reset get-current-state reports no record and no
\* credentials, and until set-credentials is called, enrich-one,
\* enrich-batch and query fail with a configuration error.
C20_Reset_AsStated ==
    /\ []ResetToDefault
    /\ [][ /\ (NoCredentials /\ response'.op # "keys") => NoCredentials'
           /\ (NoCredentials /\ response'.op \in {"enrich", "enrich_batch", "chat"})
                  => ConfigurationErrorStep ]_vars

\* C20 as amended -- ... enrich-one, enrich-batch and a query with a question
\* that is not blank fail with a configuration error; a query with a blank
\* question fails with the no-query error.
C20_Reset ==
    /\ []ResetToDefault
    /\ [][ /\ (NoCredentials /\ response'.op # "keys") => NoCredentials'
           /\ ( /\ NoCredentials
                /\ \/ response'.op \in {"enrich", "enrich_batch"}
                   \/ response'.op = "chat" /\ response'.arg = Some("question") )
                  => ConfigurationErrorStep
           /\ (NoCredentials /\ response'.op = "chat" /\ response'.arg = Some("blank"))
                  => response'.status = 400 /\ response'.error = ErrNoQuery ]_vars

\* The state after a reset: no file, and get-current-state reports no record
\* and no credentials
C20_Witness ==
    /\ response.op = "reset"
    /\ ~fileExists
    /\ CurrentState.connections = Some(<<>>)
    /\ CurrentState.hasKeys = Some(FALSE)

\* ----------------------------------------------------------------- C21

SummarizerRan == given.fn = "generate_blurb" /\ returned # None

\* The kinds of 2xx generation response that carry a summary text: a body
\* that decodes to {"candidates": [{"content": {"parts": [{"text": str}]}}]}
CarriesText(gen) ==
    /\ gen \in DOMAIN GenBodies
    /\ LET body == GenBodies[gen]
       IN  /\ body.type = "dict" /\ body.keys = <<"candidates">>
           /\ body.vals[1].type = "list" /\ body.vals[1].vals # <<>>
           /\ LET cand == body.vals[1].vals[1]
              IN  /\ cand.type = "dict" /\ cand.keys = <<"content">>
                  /\ cand.vals[1].type = "dict" /\ cand.vals[1].keys = <<"parts">>
                  /\ cand.vals[1].vals[1].type = "list"
                  /\ cand.vals[1].vals[1].vals # <<>>
                  /\ LET part == cand.vals[1].vals[1].vals[1]
                     IN  /\ part.type = "dict" /\ part.keys = <<"text">>
                         /\ part.vals[1].type = "str"

\* A 2xx generation response that cannot be parsed into a summary text
Unparseable(gen) == gen # "http_error" /\ ~CarriesText(gen)

\* C21 -- For every generation response that cannot be parsed into a summary
\* text (not JSON, JSON of an unexpected type or shape, missing keys, an
\* empty candidate list) the summarization step returns the fallback
\* sentence and raises nothing, so no generation call of enrich-one or of
\* enrich-batch raises: enrich-one succeeds and the batch reports no error.
C21_ParseFailureFallback ==
    (SummarizerRan /\ Unparseable(given.arg)) =>
        /\ returned[1] = Blurb("", Fallback)
        /\ \A k \in 1..Len(calls) : calls[k].kind = "generate" => ~calls[k].raised
        /\ (response.op = "enrich" /\ calls # <<>>) => response.status = 200
        /\ (response.op = "enrich_batch" /\ calls # <<>>) => response.errors = Some(<<>>)

\* Missing keys and empty lists are caught: the step returns the fallback
C21_KeyAndIndexFallback ==
    (SummarizerRan /\ given.arg \in {"no_candidates", "empty_candidates", "blocked",
                                     "no_parts", "dict_candidates"}) =>
        returned[1] = Blurb("", Fallback)

\* enrich-one answered 500 because the body of the generation response was
\* not JSON, or was JSON of another type than the one line 157 indexes
C21_Propagated ==
    /\ SummarizerRan
    /\ Unparseable(given.arg)
    /\ returned[1].exc \in {"JSONDecodeError", "TypeError", "AttributeError"}
    /\ response.op = "enrich"
    /\ response.status = 500
    /\ response.error = GenError(returned[1].exc)

\* ----------------------------------------------------------------- C22

QueryBuilt == given.fn = "query" /\ returned # None

\* The text of a field: empty when the record carries none
TextOf(x) == IF x = None THEN <<>> ELSE x[1]

\* The full name of a record: its first and last name, trimmed
NameOf(conn) == Strip(TextOf(conn.firstName) \o <<" ">> \o TextOf(conn.lastName))

\* Two texts joined by one space, or the one that is not empty
Spaced(a, b) == IF a = <<>> THEN b ELSE IF b = <<>> THEN a ELSE a \o <<" ">> \o b

\* C22 -- For every record the parser accepts, the search query is not empty
\* and is the full name, the position and the company, in that order, each
\* left out when empty, separated by single spaces.
C22_QueryConstruction ==
    QueryBuilt =>
        /\ returned[1] # <<>>
        /\ returned[1] = Spaced(Spaced(NameOf(given.arg), TextOf(given.arg.position)),
                                TextOf(given.arg.company))

\* The same for the records of rows that carry both name fields and a name
\* that is not blank
C22_NamedRecords ==
    (/\ QueryBuilt
     /\ given.arg.firstName # None
     /\ given.arg.lastName # None
     /\ NameOf(given.arg) # <<>>) =>
        /\ returned[1] # <<>>
        /\ returned[1] = Spaced(Spaced(NameOf(given.arg), TextOf(given.arg.position)),
                                TextOf(given.arg.company))

\* A query made of name, position and company
C22_FullQuery ==
    /\ QueryBuilt
    /\ returned[1] = <<"A", " ", "B", " ", "C", "E", "O", " ", "X">>

\* The empty query of a record whose name is a space
C22_EmptyQuery == QueryBuilt /\ returned[1] = <<>>

\* The query of a record whose row ends before the last name
C22_NoneInQuery ==
    /\ QueryBuilt
    /\ given.arg.lastName = None
    /\ returned[1] = <<"K", " ", "N", "o", "n", "e">>

\* ----------------------------------------------------------------- C23

\* The selected records for which a call of the batch raised, and the others
FailedOf(conns) == {i \in Frontier(conns) : conns[i].id \in FailedIds}
DoneOf(conns) == Frontier(conns) \ FailedOf(conns)

\* C23 -- In a batch call that selects at least one record, every selected
\* record either is enriched (it has a summary in the persisted state) or
\* has one entry in the error list; so enriched + error entries = selected
\* records = min(10, records without a summary before the call), and
\* remaining is the number of records without a summary in the persisted
\* state.
C23_BatchAccounting ==
    BatchRan =>
        /\ Len(response.errors[1]) = Cardinality(FailedOf(Before))
        /\ \A i \in FailedOf(Before) : Persisted[i] = Before[i]
        /\ \A i \in DoneOf(Before) : Truthy(Persisted[i].blurb)
        /\ response.enriched[1] + Len(response.errors[1])
               = Cardinality(Frontier(Before))
        /\ Cardinality(Frontier(Before)) = Min(10, Cardinality(NoSummary(Before)))
        /\ response.remaining = Some(Cardinality(NoSummary(Persisted)))

\* The counts alone: the records whose calls raised have one entry each,
\* the others are written and counted as enriched
C23_Counts ==
    BatchRan =>
        /\ Len(response.errors[1]) = Cardinality(FailedOf(Before))
        /\ \A i \in FailedOf(Before) : Persisted[i] = Before[i]
        /\ response.enriched[1] = Cardinality(DoneOf(Before))
        /\ \A i \in DoneOf(Before) :
               Persisted[i].blurb # None /\ Persisted[i].enrichedAt # None
        /\ response.enriched[1] + Len(response.errors[1])
               = Cardinality(Frontier(Before))
        /\ Cardinality(Frontier(Before)) = Min(10, Cardinality(NoSummary(Before)))
        /\ response.remaining = Some(Cardinality(NoSummary(Persisted)))

\* A batch call that reports a record as enriched and no error, and leaves
\* as many records without a summary as there were
C23_CountedWithoutSummary ==
    /\ BatchRan
    /\ response.enriched = Some(1)
    /\ response.errors = Some(<<>>)
    /\ response.remaining = Some(Cardinality(NoSummary(Before)))

\* A batch call on more than ten records without a summary: one failed,
\* nine were enriched, and records remain
C23_NineOfTen ==
    /\ BatchRan
    /\ Cardinality(NoSummary(Before)) > 10
    /\ Len(response.errors[1]) = 1
    /\ response.enriched = Some(9)
    /\ response.remaining = Some(Cardinality(NoSummary(Before)) - 9)

\* ----------------------------------------------------------------- C24

\* The loop runs with both credentials stored
Polling == page.isEnriching /\ ~CredentialAbsent(load_data)

\* The loop has ended on remaining 0 and every record has a summary
Completed ==
    /\ ~page.isEnriching
    /\ response.op = "enrich_batch"
    /\ response.remaining = Some(0)
    /\ NoSummary(Persisted) = {}

\* C24 -- When the loop runs with credentials present, nobody cancels, no
\* other operation intervenes and no record's calls fail on every attempt,
\* remaining eventually is 0 and the loop ends with every record enriched.
C24_PollingCompletes == (Polling /\ upstream.failing = {}) ~> Completed

\* The same when, besides, no record gets a blank text on every attempt
C24_CompletesWithText ==
    (Polling /\ upstream.failing = {} /\ upstream.blank = {}) ~> Completed

\* The loop has ended on remaining 0 after a failure that passed, on a
\* record set that takes more than one call
C24_CompletedAfterFault ==
    /\ Completed
    /\ Len(Persisted) > BatchLimit
    /\ upstream.faults < MaxFaults

\* The loop is running and the first record has an empty summary stored
C24_BlankStored ==
    /\ Polling
    /\ upstream.failing = {}
    /\ Persisted # <<>>
    /\ Persisted[1].blurb = Some(<<>>)

\* ----------------------------------------------------------------- C25

\* The row ordinals of the records of the largest export
Ordinals == 0..(MaxRows - 1)

\* The positions of the persisted records of row ordinal o
RecordsOf(o) == {i \in 1..Len(Persisted) : Persisted[i].id[1] = o}

\* The loop runs, and a record of ordinal o, whose search and generation
\* calls succeed and return a text, has no summary
Waiting(o) ==
    /\ Polling
    /\ o \notin upstream.failing \cup upstream.blank
    /\ \E i \in RecordsOf(o) : ~Truthy(Persisted[i].blurb)

Enriched(o) == \E i \in RecordsOf(o) : Truthy(Persisted[i].blurb)

\* C25 -- Under repeated enrich-batch calls every record without a summary
\* whose own calls succeed is eventually enriched, however many records
\* before it fail on every attempt.
C25_NoStarvation == \A o \in Ordinals : Waiting(o) ~> Enriched(o)

\* The same when fewer than ten records fail on every attempt
C25_FewFailing ==
    \A o \in Ordinals :
        (Waiting(o) /\ Cardinality(upstream.failing) < BatchLimit) ~> Enriched(o)

\* A call of the loop in which ten records failed and none was enriched,
\* with a record behind them whose calls would succeed
C25_Starved ==
    /\ response.op = "enrich_batch"
    /\ response.enriched = Some(0)
    /\ Len(response.errors[1]) = BatchLimit
    /\ \E o \in Ordinals : Waiting(o)

\* ----------------------------------------------------------------- C26

\* An enrichment handler saves in this step
EnrichmentSaves ==
    /\ response'.op \in {"enrich", "enrich_batch"}
    /\ loaded' # None
    /\ \E t \in Threads : InFlight(t) /\ ~InFlight(t)'
    /\ response'.status = 200
    /\ calls' # <<>>

\* C26 -- No lost update: when an enrichment call saves, the document it
\* loaded is the persisted one, so that what set-credentials, ingest, reset
\* or enrich-one persisted while the call was in flight is still there
\* after the save; no save is derived from a stale load.
C26_NoLostUpdate == [][EnrichmentSaves => loaded'[1] = load_data]_vars

\* The same for the credentials alone: an enrichment call that saves
\* leaves the stored keys as they were
C26_KeysKept ==
    [][EnrichmentSaves => load_data'.api_keys = load_data.api_keys]_vars

\* ----------------------------------------------------------------- C27

\* The step serves enrich-one, enrich-batch, set-credentials or a query
EnrichmentOrKeysOrQuery == response'.op \in {"enrich", "enrich_batch", "keys", "chat"}

\* Every record keeps its place, a record with a summary still has one, and
\* no more records are without a summary than before
SummariesKept ==
    /\ Len(Persisted') = Len(Persisted)
    /\ \A i \in 1..Len(Persisted) :
           Truthy(Persisted[i].blurb) => Truthy(Persisted'[i].blurb)
    /\ Cardinality(NoSummary(Persisted')) <= Cardinality(NoSummary(Persisted))

\* C27 -- Across enrich-one, enrich-batch, set-credentials and query calls a
\* record that has a summary never loses it and the number of records
\* without a summary never grows, also when enrich-one is called on a
\* record that is already enriched.
C27_Monotonic == [][EnrichmentOrKeysOrQuery => SummariesKept]_vars

\* The same for the steps that store no empty summary
C27_MonotonicWithText ==
    [][ (/\ EnrichmentOrKeysOrQuery
         /\ \A i \in 1..Len(Persisted') : Persisted'[i].blurb # Some(<<>>))
        => SummariesKept ]_vars

\* enrich-one answered success with an empty summary for a record that
\* carries its enrichment timestamp
C27_SummaryErased ==
    /\ response.op = "enrich"
    /\ response.status = 200
    /\ response.blurb = Some(<<>>)
    /\ Len(calls) = 2
    /\ \E i \in 1..Len(Before) :
           /\ Before[i].id = response.arg
           /\ Truthy(Before[i].blurb)
           /\ ~Truthy(Persisted[i].blurb)
====
